---- MODULE Spec2Model ----
(***************************************************************************)
(* Participant orchestration loop of dxlnr/mosaic (python bindings).       *)
(*                                                                         *)
(* Two variants of the loop live in the repository:                        *)
(*   ModalicClient  src/bindings/modalic/python_sdk/client.py              *)
(*   MosaicClient   src/bindings/python/python_sdk/client.py               *)
(* klass selects the variant at construction.  One background thread runs  *)
(* run(); any number of other threads call stop().                         *)
(***************************************************************************)
EXTENDS Integers, Sequences, FiniteSets, TLC

\* ------------------------------------------------------------------ bounds
NumStoppers == 2      \* threads that call stop()
NumModels == 2        \* distinct raw global models the coordinator can return
MaxAttempt == 3       \* steps the loop may start under Spec
MaxBackoffAttempt == 28  \* steps the loop may start under SpecBackoff
MaxLiveAttempt == 1   \* steps the loop may start under FairSpec
MaxFails == 2         \* consecutive failed fetches that are told apart

\* ------------------------------------------------------- program constants
MinMs == 100          \* Backoff(min_ms=100, ...)
MaxMs == 10000        \* Backoff(..., max_ms=10000, ...)
FactorNum == 12       \* Backoff(..., factor=1.2, ...) as 12/10
FactorDen == 10

Stoppers == 1..NumStoppers
RawModels == 1..NumModels

Modalic == "ModalicClient"
Mosaic == "MosaicClient"

\* self._global_model = None
None == <<>>

\* self._client.deserialize_training_input(global_model): a user supplied
\* conversion of the raw coordinator result into the training input.
Deserialize(raw) == <<raw>>

VARIABLES
    klass,                        \* which client class was constructed
    pc,                           \* position of the background thread
    exit_event,                   \* self._exit_event (threading.Event flag)
    step_lock,                    \* self._step_lock is held
    error_on_fetch_global_model,  \* self._error_on_fetch_global_model
    global_model,                 \* self._global_model
    made_progress,                \* local made_progress of _step
    cur_attempt,                  \* self._poll_period.cur_attempt
    wait_ms,                      \* timeout handed to the last _exit_event.wait
    stop_pc,                      \* position of every stop() caller
    thread_exc,                   \* a failure escaped run()
    on_stop_calls,                \* calls of the user client's on_stop()
    \* observations of the calls made on the collaborators
    last_fetch,                   \* outcome of the most recent fetch
    fetches,                      \* fetches made in the current step
    on_new_calls,                 \* on_new_global_model calls in the current step
    train_calls,                  \* train_single_update calls in the current step
    mp_calls,                     \* made_progress() calls in the current step
    stop_mid,                     \* stop() s set the event while a step held the lock
    uninit,                        \* a submission failed with UninitializedParticipant
    submit_mismatch,               \* the most recent submission failed with a length or data-type mismatch
    gate_ngm,                      \* new_global_model() as read by the fetch gate of the current step
    gate_ferr,                     \* fetch_error as read by the fetch gate (until the train gate)
    gate_ssm,                      \* should_set_model() as read by the train gate (until the step's wait)
    gate_part,                     \* participate_in_update_task() was asked by the train gate and said yes
    fetched_raw,                   \* raw result of the most recent fetch that returned (0: None, or none yet)
    fail_run,                    \* failed fetches in a row; after a fetch that returned, the run it ended, until its step is over
    train_arg                     \* argument of the train_single_update call of the current step

vars == <<klass, pc, exit_event, step_lock, error_on_fetch_global_model,
          global_model, made_progress, cur_attempt, wait_ms, stop_pc,
          thread_exc, on_stop_calls, last_fetch, fetches, on_new_calls,
          train_calls, mp_calls, stop_mid, uninit,
          submit_mismatch,
          gate_ngm,
          gate_ferr,
          gate_ssm,
          gate_part,
          fetched_raw,
          fail_run,
          train_arg>>

loopVars == <<pc, step_lock, error_on_fetch_global_model, global_model,
              made_progress, cur_attempt, wait_ms, last_fetch, fetches,
              on_new_calls, train_calls, mp_calls>>

\* positions of the background thread inside `with self._step_lock:`
InStep == {"tick", "fetch_gate", "fetch", "on_new", "train_gate", "train",
           "submit", "made_progress"}

\* ------------------------------------------------------------ primitives
\* threading.Event.set()
EventSetToggles(e) == ~e
EventSet(e) == TRUE

\* threading.Lock.acquire(): blocks while the lock is held
CanAcquireAlways(l) == TRUE
CanAcquire(l) == ~l

\* threading.Event.wait(timeout): returns at once when the flag is set
WaitWakesNever(e) == FALSE
WaitWakes(e) == e

\* `while not self._exit_event.is_set()`
LoopContinueAlways(e) == TRUE
LoopContinue(e) == ~e

\* _fetch_global_model, except branch: self._error_on_fetch_global_model = True
ErrorToggledOnFailure(ferr) == ~ferr
ErrorAfterFailure(ferr) == TRUE

\* _fetch_global_model, except branch: self._global_model is not assigned
ModelClearedOnFailure(gm) == None
ModelAfterFailure(gm) == gm

\* _fetch_global_model, `else: self._global_model = None`
ModelKeptOnNone(gm) == gm
ModelAfterNone(gm) == None

\* one more failed fetch in a row (runs longer than MaxFails count as MaxFails)
OneMoreFail(n) == IF n < MaxFails THEN n + 1 ELSE MaxFails

\* the fetch gate of _step
FetchGateNoRetry(ngm, ferr) == ngm
FetchGate(ngm, ferr) == ngm \/ ferr

\* the train gate of _step
TrainGateNoFetchError(ssm, part, ferr) == ssm /\ part
TrainGateIgnoresParticipate(ssm, part, ferr) == ssm /\ ~ferr
TrainGate(ssm, part, ferr) == ssm /\ part /\ ~ferr

\* _set_local_model: UninitializedParticipant is caught and sets the event
SetLocalModelKeepsExit(outcome, e) == e
SetLocalModelExit(outcome, e) == IF outcome = "Uninitialized" THEN EventSet(e) ELSE e

\* the two recoverable submission failures
SubmitMismatch == {"LocalModelLengthMisMatch", "LocalModelDataTypeMisMatch"}

\* _train: `except (LocalModelLengthMisMatch, LocalModelDataTypeMisMatch)`
TrainCatchesLengthOnly(outcome) == outcome = "LocalModelLengthMisMatch"
TrainCatches(outcome) == outcome \in SubmitMismatch

\* a submission outcome that does not leave _train as a failure
SubmitCaught(outcome) ==
    outcome = "ok" \/ outcome = "Uninitialized" \/ TrainCatches(outcome)

\* ---------------------------------------------------------------- Backoff
\* Backoff.for_attempt: min * factor^attempt, clamped to max (whole ms)
RECURSIVE ForAttempt(_)
ForAttempt(n) ==
    IF n = 0 THEN MinMs
    ELSE LET d == (ForAttempt(n - 1) * FactorNum) \div FactorDen
         IN  IF d > MaxMs THEN MaxMs ELSE d

\* `if made_progress: self._poll_period.reset()`
AttemptWithoutReset(made, cur) == cur
AttemptAfterReset(made, cur) == IF made THEN 0 ELSE cur

\* ------------------------------------------------------------------- Init
Init ==
    /\ klass \in {Modalic, Mosaic}
    /\ pc = "start"
    /\ exit_event = FALSE
    /\ step_lock = FALSE
    /\ error_on_fetch_global_model = FALSE
    /\ global_model = None
    /\ made_progress = FALSE
    /\ cur_attempt = 0
    /\ wait_ms = 0
    /\ stop_pc = [s \in Stoppers |-> "idle"]
    /\ thread_exc = FALSE
    /\ on_stop_calls = 0
    /\ last_fetch = "never"
    /\ fetches = 0
    /\ on_new_calls = 0
    /\ train_calls = 0
    /\ mp_calls = 0
    /\ stop_mid = [s \in Stoppers |-> FALSE]
    /\ uninit = FALSE
    /\ submit_mismatch = FALSE
    /\ gate_ngm = FALSE
    /\ gate_ferr = FALSE
    /\ gate_ssm = FALSE
    /\ gate_part = FALSE
    /\ fetched_raw = 0
    /\ fail_run = 0
    /\ train_arg = None

\* ------------------------------------------------------ background thread
\* run(): self._client = self._client(), then enters _run
RunStart ==
    /\ pc = "start"
    /\ pc' = "check"
    /\ UNCHANGED <<klass, train_arg, fail_run, fetched_raw, gate_part, gate_ssm, gate_ferr, gate_ngm, submit_mismatch, exit_event, step_lock, error_on_fetch_global_model,
                   global_model, made_progress, cur_attempt, wait_ms, stop_pc,
                   thread_exc, on_stop_calls, last_fetch, fetches,
                   on_new_calls, train_calls, mp_calls, stop_mid, uninit>>

\* _run(): the loop-top test; at most cap steps are started
LoopCheck(cap) ==
    /\ pc = "check"
    /\ LoopContinue(exit_event) => cur_attempt < cap
    /\ pc' = IF LoopContinue(exit_event) THEN "acquire" ELSE "done"
    /\ UNCHANGED <<klass, train_arg, fail_run, fetched_raw, gate_part, gate_ssm, gate_ferr, gate_ngm, submit_mismatch, exit_event, step_lock, error_on_fetch_global_model,
                   global_model, made_progress, cur_attempt, wait_ms, stop_pc,
                   thread_exc, on_stop_calls, last_fetch, fetches,
                   on_new_calls, train_calls, mp_calls, stop_mid, uninit>>

\* _step(): `with self._step_lock:` entered
StepAcquire ==
    /\ pc = "acquire"
    /\ CanAcquire(step_lock)
    /\ step_lock' = TRUE
    /\ pc' = "tick"
    /\ fetches' = 0
    /\ on_new_calls' = 0
    /\ train_calls' = 0
    /\ mp_calls' = 0
    /\ gate_ngm' = FALSE
    /\ gate_ferr' = FALSE
    /\ gate_ssm' = FALSE
    /\ gate_part' = FALSE
    /\ train_arg' = None
    /\ UNCHANGED <<klass, fail_run, fetched_raw, submit_mismatch, exit_event, error_on_fetch_global_model,
                   global_model, made_progress, cur_attempt, wait_ms, stop_pc,
                   thread_exc, on_stop_calls, last_fetch, stop_mid, uninit>>

\* self._modalic_client.tick()  /  self._mosaic_client.step()
\* (MosaicClient._step ends here: the lock is released and _run loops)
Tick ==
    /\ pc = "tick"
    /\ IF klass = Modalic
          THEN pc' = "fetch_gate" /\ UNCHANGED step_lock
          ELSE pc' = "check" /\ step_lock' = FALSE
    /\ UNCHANGED <<klass, train_arg, fail_run, fetched_raw, gate_part, gate_ssm, gate_ferr, gate_ngm, submit_mismatch, exit_event, error_on_fetch_global_model,
                   global_model, made_progress, cur_attempt, wait_ms, stop_pc,
                   thread_exc, on_stop_calls, last_fetch, fetches,
                   on_new_calls, train_calls, mp_calls, stop_mid, uninit>>

\* if new_global_model() or self._error_on_fetch_global_model
FetchGateStep ==
    /\ pc = "fetch_gate"
    /\ \E ngm \in BOOLEAN :
          /\ pc' = IF FetchGate(ngm, error_on_fetch_global_model)
                      THEN "fetch" ELSE "train_gate"
          /\ gate_ngm' = ngm
    /\ gate_ferr' = error_on_fetch_global_model
    /\ UNCHANGED <<klass, train_arg, fail_run, fetched_raw, gate_part, gate_ssm, submit_mismatch, exit_event, step_lock, error_on_fetch_global_model,
                   global_model, made_progress, cur_attempt, wait_ms, stop_pc,
                   thread_exc, on_stop_calls, last_fetch, fetches,
                   on_new_calls, train_calls, mp_calls, stop_mid, uninit>>

\* _fetch_global_model() and the test that follows it in _step
FetchFailed ==
    /\ pc = "fetch"
    /\ \E err \in {"GlobalModelUnavailable", "GlobalModelDataTypeMisMatch"} :
          /\ error_on_fetch_global_model' = ErrorAfterFailure(error_on_fetch_global_model)
          /\ global_model' = ModelAfterFailure(global_model)
          /\ last_fetch' = "failed"
    /\ fetches' = fetches + 1
    /\ pc' = IF ~error_on_fetch_global_model' THEN "on_new" ELSE "train_gate"
    /\ fail_run' = OneMoreFail(fail_run)
    /\ UNCHANGED <<klass, train_arg, fetched_raw, gate_part, gate_ssm, gate_ferr, gate_ngm, submit_mismatch, exit_event, step_lock, made_progress, cur_attempt,
                   wait_ms, stop_pc, thread_exc, on_stop_calls, on_new_calls,
                   train_calls, mp_calls, stop_mid, uninit>>

FetchReturned ==
    /\ pc = "fetch"
    /\ \/ /\ global_model' = ModelAfterNone(global_model)
          /\ fetched_raw' = 0
          /\ last_fetch' = "absent"
       \/ \E raw \in RawModels :
             /\ global_model' = Deserialize(raw)
             /\ fetched_raw' = raw
             /\ last_fetch' = "present"
    /\ error_on_fetch_global_model' = FALSE
    /\ fetches' = fetches + 1
    /\ pc' = IF ~error_on_fetch_global_model' THEN "on_new" ELSE "train_gate"
    /\ UNCHANGED <<klass, train_arg, fail_run, gate_part, gate_ssm, gate_ferr, gate_ngm, submit_mismatch, exit_event, step_lock, made_progress, cur_attempt,
                   wait_ms, stop_pc, thread_exc, on_stop_calls, on_new_calls,
                   train_calls, mp_calls, stop_mid, uninit>>

\* self._client.on_new_global_model(self._global_model)
OnNewGlobalModel ==
    /\ pc = "on_new"
    /\ on_new_calls' = on_new_calls + 1
    /\ pc' = "train_gate"
    /\ UNCHANGED <<klass, train_arg, fail_run, fetched_raw, gate_part, gate_ssm, gate_ferr, gate_ngm, submit_mismatch, exit_event, step_lock, error_on_fetch_global_model,
                   global_model, made_progress, cur_attempt, wait_ms, stop_pc,
                   thread_exc, on_stop_calls, last_fetch, fetches,
                   train_calls, mp_calls, stop_mid, uninit>>

\* if should_set_model() and participate_in_update_task() and not error
\* (`and` asks participate_in_update_task() only when should_set_model())
TrainGateStep ==
    /\ pc = "train_gate"
    /\ \E ssm \in BOOLEAN, part \in BOOLEAN :
          /\ pc' = IF TrainGate(ssm, part, error_on_fetch_global_model)
                      THEN "train" ELSE "made_progress"
          /\ gate_ssm' = ssm
          /\ gate_part' = (ssm /\ part)
    /\ gate_ngm' = FALSE
    /\ gate_ferr' = FALSE
    /\ UNCHANGED <<klass, train_arg, fail_run, fetched_raw, submit_mismatch, exit_event, step_lock, error_on_fetch_global_model,
                   global_model, made_progress, cur_attempt, wait_ms, stop_pc,
                   thread_exc, on_stop_calls, last_fetch, fetches,
                   on_new_calls, train_calls, mp_calls, stop_mid, uninit>>

\* _train(): local_update = self._client.train_single_update(self._global_model)
Train ==
    /\ pc = "train"
    /\ train_calls' = train_calls + 1
    /\ pc' = "submit"
    /\ train_arg' = global_model
    /\ UNCHANGED <<klass, fail_run, fetched_raw, gate_part, gate_ssm, gate_ferr, gate_ngm, submit_mismatch, exit_event, step_lock, error_on_fetch_global_model,
                   global_model, made_progress, cur_attempt, wait_ms, stop_pc,
                   thread_exc, on_stop_calls, last_fetch, fetches,
                   on_new_calls, mp_calls, stop_mid, uninit>>

\* _train(): self._set_local_model(local_update) with both except clauses;
\* a failure neither of them names leaves the step like any other
Submit ==
    /\ pc = "submit"
    /\ \E outcome \in {"ok", "Uninitialized", "LocalModelLengthMisMatch",
                       "LocalModelDataTypeMisMatch"} :
          /\ exit_event' = SetLocalModelExit(outcome, exit_event)
          /\ uninit' = (uninit \/ outcome = "Uninitialized")
          /\ submit_mismatch' = (outcome \in SubmitMismatch)
          /\ IF SubmitCaught(outcome)
                THEN pc' = "made_progress" /\ UNCHANGED step_lock
                ELSE pc' = "raised" /\ step_lock' = FALSE
    /\ UNCHANGED <<klass, train_arg, fail_run, fetched_raw, gate_part, gate_ssm, gate_ferr, gate_ngm, error_on_fetch_global_model,
                   global_model, made_progress, cur_attempt, wait_ms, stop_pc,
                   thread_exc, on_stop_calls, last_fetch, fetches,
                   on_new_calls, train_calls, mp_calls, stop_mid>>

\* made_progress = self._modalic_client.made_progress(); the with block ends
MadeProgressKeepsLock ==
    /\ pc = "made_progress"
    /\ \E mp \in BOOLEAN : made_progress' = mp
    /\ mp_calls' = mp_calls + 1
    /\ UNCHANGED step_lock
    /\ pc' = "backoff"
    /\ UNCHANGED <<klass, train_arg, fail_run, fetched_raw, gate_part, gate_ssm, gate_ferr, gate_ngm, submit_mismatch, exit_event, error_on_fetch_global_model,
                   global_model, cur_attempt, wait_ms, stop_pc, thread_exc,
                   on_stop_calls, last_fetch, fetches, on_new_calls,
                   train_calls, stop_mid, uninit>>
MadeProgress ==
    /\ pc = "made_progress"
    /\ \E mp \in BOOLEAN : made_progress' = mp
    /\ mp_calls' = mp_calls + 1
    /\ step_lock' = FALSE
    /\ pc' = "backoff"
    /\ UNCHANGED <<klass, train_arg, fail_run, fetched_raw, gate_part, gate_ssm, gate_ferr, gate_ngm, submit_mismatch, exit_event, error_on_fetch_global_model,
                   global_model, cur_attempt, wait_ms, stop_pc, thread_exc,
                   on_stop_calls, last_fetch, fetches, on_new_calls,
                   train_calls, stop_mid, uninit>>

\* if made_progress: reset(); timeout = self._poll_period.duration()
BackoffStep ==
    /\ pc = "backoff"
    /\ LET a == AttemptAfterReset(made_progress, cur_attempt)
       IN  /\ wait_ms' = ForAttempt(a)
           /\ cur_attempt' = a + 1
    /\ pc' = "wait"
    /\ gate_ssm' = FALSE
    /\ gate_part' = FALSE
    /\ fail_run' = IF error_on_fetch_global_model THEN fail_run ELSE 0
    /\ UNCHANGED <<klass, train_arg, fetched_raw, gate_ferr, gate_ngm, submit_mismatch, exit_event, step_lock, error_on_fetch_global_model,
                   global_model, made_progress, stop_pc, thread_exc,
                   on_stop_calls, last_fetch, fetches, on_new_calls,
                   train_calls, mp_calls, stop_mid, uninit>>

\* self._exit_event.wait(timeout=...): returns when the event is set or the
\* timeout has elapsed; _step returns and its local made_progress is gone
Wait ==
    /\ pc = "wait"
    /\ pc' = "check"
    /\ made_progress' = FALSE
    /\ UNCHANGED <<klass, train_arg, fail_run, fetched_raw, gate_part, gate_ssm, gate_ferr, gate_ngm, submit_mismatch, exit_event, step_lock, error_on_fetch_global_model,
                   global_model, cur_attempt, wait_ms, stop_pc,
                   thread_exc, on_stop_calls, last_fetch, fetches,
                   on_new_calls, train_calls, mp_calls, stop_mid, uninit>>

\* the call at pc raises a failure no except clause of the step names: the
\* with block releases the lock and the failure travels to run()
StepRaise ==
    /\ pc \in InStep
    /\ step_lock' = FALSE
    /\ pc' = "raised"
    /\ fetches' = IF pc = "fetch" THEN fetches + 1 ELSE fetches
    /\ on_new_calls' = IF pc = "on_new" THEN on_new_calls + 1 ELSE on_new_calls
    /\ train_calls' = IF pc = "train" THEN train_calls + 1 ELSE train_calls
    /\ mp_calls' = IF pc = "made_progress" THEN mp_calls + 1 ELSE mp_calls
    /\ submit_mismatch' = IF pc = "submit" THEN FALSE ELSE submit_mismatch
    /\ train_arg' = IF pc = "train" THEN global_model ELSE train_arg
    /\ UNCHANGED <<klass, fail_run, fetched_raw, gate_part, gate_ssm, gate_ferr, gate_ngm, exit_event, error_on_fetch_global_model,
                   global_model, made_progress, cur_attempt, wait_ms, stop_pc,
                   thread_exc, on_stop_calls, last_fetch, stop_mid, uninit>>

\* run(): `except Exception as err: self._exit_event.set()`
RunPropagates ==
    /\ pc = "raised"
    /\ thread_exc' = TRUE
    /\ pc' = "done"
    /\ UNCHANGED <<klass, train_arg, fail_run, fetched_raw, gate_part, gate_ssm, gate_ferr, gate_ngm, submit_mismatch, exit_event, step_lock, error_on_fetch_global_model,
                   global_model, made_progress, cur_attempt, wait_ms, stop_pc,
                   on_stop_calls, last_fetch, fetches, on_new_calls,
                   train_calls, mp_calls, stop_mid, uninit>>
RunExcept ==
    /\ pc = "raised"
    /\ exit_event' = EventSet(exit_event)
    /\ pc' = "done"
    /\ UNCHANGED <<klass, train_arg, fail_run, fetched_raw, gate_part, gate_ssm, gate_ferr, gate_ngm, submit_mismatch, step_lock, error_on_fetch_global_model,
                   global_model, made_progress, cur_attempt, wait_ms, stop_pc,
                   thread_exc, on_stop_calls, last_fetch, fetches,
                   on_new_calls, train_calls, mp_calls, stop_mid, uninit>>

\* ----------------------------------------------------------------- stop()
\* stop(): self._exit_event.set()
StopSet(s) ==
    /\ stop_pc[s] = "idle"
    /\ exit_event' = EventSet(exit_event)
    /\ stop_pc' = [stop_pc EXCEPT ![s] = IF klass = Modalic THEN "lock" ELSE "on_stop"]
    /\ stop_mid' = [stop_mid EXCEPT ![s] = (pc \in InStep)]
    /\ UNCHANGED <<klass, train_arg, fail_run, fetched_raw, gate_part, gate_ssm, gate_ferr, gate_ngm, submit_mismatch, thread_exc, on_stop_calls, uninit>>
    /\ UNCHANGED loopVars

\* ModalicClient.stop(): `with self._step_lock:` entered
StopAcquire(s) ==
    /\ stop_pc[s] = "lock"
    /\ CanAcquire(step_lock)
    /\ step_lock' = TRUE
    /\ stop_pc' = [stop_pc EXCEPT ![s] = "held"]
    /\ UNCHANGED <<klass, train_arg, fail_run, fetched_raw, gate_part, gate_ssm, gate_ferr, gate_ngm, submit_mismatch, pc, exit_event, error_on_fetch_global_model,
                   global_model, made_progress, cur_attempt, wait_ms,
                   thread_exc, on_stop_calls, last_fetch, fetches,
                   on_new_calls, train_calls, mp_calls, stop_mid, uninit>>

\* ModalicClient.stop(): the with block ends and stop() returns
\* (the on_stop() call after it is commented out)
StopRelease(s) ==
    /\ stop_pc[s] = "held"
    /\ step_lock' = FALSE
    /\ stop_pc' = [stop_pc EXCEPT ![s] = "returned"]
    /\ UNCHANGED <<klass, train_arg, fail_run, fetched_raw, gate_part, gate_ssm, gate_ferr, gate_ngm, submit_mismatch, pc, exit_event, error_on_fetch_global_model,
                   global_model, made_progress, cur_attempt, wait_ms,
                   thread_exc, on_stop_calls, last_fetch, fetches,
                   on_new_calls, train_calls, mp_calls, stop_mid, uninit>>

\* MosaicClient.stop(): self._client.on_stop() and stop() returns
StopOnStop(s) ==
    /\ stop_pc[s] = "on_stop"
    /\ on_stop_calls' = on_stop_calls + 1
    /\ stop_pc' = [stop_pc EXCEPT ![s] = "returned"]
    /\ UNCHANGED <<klass, train_arg, fail_run, fetched_raw, gate_part, gate_ssm, gate_ferr, gate_ngm, submit_mismatch, exit_event, thread_exc, stop_mid, uninit>>
    /\ UNCHANGED loopVars

Next ==
    \/ RunStart
    \/ LoopCheck(MaxAttempt)
    \/ StepAcquire
    \/ Tick
    \/ FetchGateStep
    \/ FetchFailed
    \/ FetchReturned
    \/ OnNewGlobalModel
    \/ TrainGateStep
    \/ Train
    \/ Submit
    \/ MadeProgress
    \/ BackoffStep
    \/ Wait
    \/ StepRaise
    \/ RunExcept
    \/ \E s \in Stoppers : StopSet(s)
    \/ \E s \in Stoppers : StopAcquire(s)
    \/ \E s \in Stoppers : StopRelease(s)
    \/ \E s \in Stoppers : StopOnStop(s)

Spec == Init /\ [][Next]_vars

\* the same program followed for as many steps as the backoff needs to reach
\* its maximum
NextBackoff ==
    \/ RunStart
    \/ LoopCheck(MaxBackoffAttempt)
    \/ StepAcquire
    \/ Tick
    \/ FetchGateStep
    \/ FetchFailed
    \/ FetchReturned
    \/ OnNewGlobalModel
    \/ TrainGateStep
    \/ Train
    \/ Submit
    \/ MadeProgress
    \/ BackoffStep
    \/ Wait
    \/ StepRaise
    \/ RunExcept
    \/ \E s \in Stoppers : StopSet(s)
    \/ \E s \in Stoppers : StopAcquire(s)
    \/ \E s \in Stoppers : StopRelease(s)
    \/ \E s \in Stoppers : StopOnStop(s)

SpecBackoff == Init /\ [][NextBackoff]_vars

\* the program under the scheduling its threads can count on: the background
\* thread is not starved and every call it makes returns or raises, but its
\* idle wait is only sure to end once the event is set; a stop() caller that
\* can take or release the lock, or call on_stop(), eventually does
NextLive ==
    \/ RunStart
    \/ LoopCheck(MaxLiveAttempt)
    \/ StepAcquire
    \/ Tick
    \/ FetchGateStep
    \/ FetchFailed
    \/ FetchReturned
    \/ OnNewGlobalModel
    \/ TrainGateStep
    \/ Train
    \/ Submit
    \/ MadeProgress
    \/ BackoffStep
    \/ Wait
    \/ StepRaise
    \/ RunExcept
    \/ \E s \in Stoppers : StopSet(s)
    \/ \E s \in Stoppers : StopAcquire(s)
    \/ \E s \in Stoppers : StopRelease(s)
    \/ \E s \in Stoppers : StopOnStop(s)

LoopProgress ==
    \/ RunStart
    \/ LoopCheck(MaxLiveAttempt)
    \/ StepAcquire
    \/ Tick
    \/ FetchGateStep
    \/ FetchFailed
    \/ FetchReturned
    \/ OnNewGlobalModel
    \/ TrainGateStep
    \/ Train
    \/ Submit
    \/ MadeProgress
    \/ BackoffStep
    \/ (WaitWakes(exit_event) /\ Wait)
    \/ StepRaise
    \/ RunExcept

FairSpec ==
    /\ Init /\ [][NextLive]_vars
    /\ WF_vars(LoopProgress)
    /\ \A s \in Stoppers :
          /\ WF_vars(StopAcquire(s))
          /\ WF_vars(StopRelease(s))
          /\ WF_vars(StopOnStop(s))

TypeOK ==
    /\ klass \in {Modalic, Mosaic}
    /\ pc \in InStep \cup {"start", "check", "acquire", "backoff", "wait", "raised", "done"}
    /\ exit_event \in BOOLEAN
    /\ step_lock \in BOOLEAN
    /\ error_on_fetch_global_model \in BOOLEAN
    /\ global_model \in {None} \cup {Deserialize(r) : r \in RawModels}
    /\ made_progress \in BOOLEAN
    /\ cur_attempt \in 0..MaxBackoffAttempt
    /\ fetched_raw \in {0} \cup RawModels
    /\ train_arg \in {None} \cup {Deserialize(raw) : raw \in RawModels}
    /\ fail_run \in 0..MaxFails
    /\ submit_mismatch \in BOOLEAN
    /\ gate_ngm \in BOOLEAN /\ gate_ferr \in BOOLEAN
    /\ gate_ssm \in BOOLEAN /\ gate_part \in BOOLEAN
    /\ wait_ms \in 0..MaxMs
    /\ stop_pc \in [Stoppers -> {"idle", "lock", "held", "on_stop", "returned"}]
    /\ thread_exc \in BOOLEAN
    /\ on_stop_calls \in 0..NumStoppers
    /\ last_fetch \in {"never", "failed", "absent", "present"}
    /\ fetches \in 0..1
    /\ on_new_calls \in 0..1
    /\ train_calls \in 0..1
    /\ mp_calls \in 0..1
    /\ stop_mid \in [Stoppers -> BOOLEAN]
    /\ uninit \in BOOLEAN

\* ------------------------------------------------------------- properties
StepStarts == pc = "acquire" /\ pc' = "tick"
InLockSection == {s \in Stoppers : stop_pc[s] = "held"}
AllIdle == \A s \in Stoppers : stop_pc[s] = "idle"

\* C1: in ModalicClient no step starts (the loop enters the body of _step)
\* once some stop() call has returned.
C1_NoStepAfterStopReturns ==
    [][(klass = Modalic /\ \E s \in Stoppers : stop_pc[s] = "returned")
          => ~StepStarts]_vars

\* C2: at most one execution context is inside a Step Mutex section: the
\* loop inside the body of _step and the stop() callers inside their with
\* block exclude each other, and the lock is held whenever one of them is in.
C2_AtMostOneStep ==
    /\ Cardinality(InLockSection) + (IF pc \in InStep THEN 1 ELSE 0) <= 1
    /\ (pc \in InStep \/ InLockSection # {}) => step_lock
C2_Witness ==
    /\ klass = Modalic
    /\ pc \in {"train", "submit"}
    /\ \A s \in Stoppers : stop_pc[s] = "lock"

\* C3 (Scenario E): a ModalicClient.stop() that set the Exit Signal while a
\* step held the Step Mutex has not returned while that step is in progress,
\* and no step starts after it.
C3_StopWaitsForStep ==
    /\ [](klass = Modalic =>
            \A s \in Stoppers :
               (stop_mid[s] /\ stop_pc[s] = "returned") => pc \notin InStep)
    /\ [][(klass = Modalic /\ \E s \in Stoppers : stop_mid[s])
             => ~StepStarts]_vars
C3_Witness ==
    /\ klass = Modalic
    /\ pc = "done"
    /\ train_calls = 1
    /\ ~thread_exc /\ ~uninit
    /\ \E s \in Stoppers : stop_mid[s] /\ stop_pc[s] = "returned"

\* C4: the Exit Signal is monotonic: no step of any thread clears it.
C4_ExitMonotonic == [][exit_event => exit_event']_vars
C4_Witness ==
    /\ exit_event
    /\ uninit
    /\ pc = "done"
    /\ \A s \in Stoppers : stop_pc[s] = "returned"

\* C5: train_single_update is never called while fetch_error is true, nor
\* while the most recent fetch is a failed one.
C5_NoTrainOnFetchError ==
    (pc = "train" \/ train_calls > 0)
       => (~error_on_fetch_global_model /\ last_fetch # "failed")
C5_Witness ==
    /\ pc = "made_progress"
    /\ error_on_fetch_global_model
    /\ fetches = 1
    /\ train_calls = 0
    /\ cur_attempt >= 2

\* C6: once a step is past its fetch block, on_new_global_model has been
\* invoked once if the step's fetch returned a present model and not at all
\* otherwise (no fetch, failed fetch, fetch that returned None).
C6_OnNewOnlyForPresentModel ==
    pc \in {"train_gate", "train", "submit", "made_progress"}
       => on_new_calls = (IF fetches = 1 /\ last_fetch = "present" THEN 1 ELSE 0)

\* C7: whenever the loop has terminated, on_stop() has been invoked exactly
\* once.
C7_OnStopExactlyOnce == pc = "done" => on_stop_calls = 1

\* C8: the idle wait never exceeds max_ms, the wait after a step that made
\* progress is min_ms, and the wait after a step that made none is not
\* shorter than the wait before it.
C8_BackoffBounded ==
    /\ [](wait_ms <= MaxMs)
    /\ [][(pc = "backoff" /\ pc' = "wait")
             => IF made_progress THEN wait_ms' = MinMs
                                 ELSE wait_ms' >= wait_ms]_vars
C8_Witness ==
    /\ pc = "wait"
    /\ ~made_progress
    /\ wait_ms = MaxMs
    /\ ForAttempt(cur_attempt - 2) < MaxMs

\* C9: a failure raised inside a step releases the Step Mutex, is caught by
\* run(), which sets the Exit Signal and ends the loop; no further step
\* starts and the failure does not leave the background thread.
C9_FailureBoundary ==
    /\ [](~thread_exc)
    /\ [][/\ (pc' = "raised" /\ pc # "raised") => (pc \in InStep /\ ~step_lock')
          /\ (pc = "raised" /\ pc' # "raised") => (pc' = "done" /\ exit_event')
          /\ pc = "done" => pc' = "done"]_vars
C9_Witness ==
    /\ pc = "done"
    /\ exit_event
    /\ ~uninit
    /\ AllIdle

\* C10: after a submission failed with UninitializedParticipant the Exit
\* Signal is set, the step goes on to read made_progress and to release the
\* Step Mutex, and no further step starts.
C10_UninitializedEndsLoop ==
    /\ [](uninit => (exit_event /\ (pc \notin InStep => mp_calls = 1)))
    /\ [][/\ (uninit' /\ pc = "submit" /\ pc' # pc) => pc' = "made_progress"
          /\ (uninit /\ pc = "made_progress" /\ pc' # pc) => ~step_lock'
          /\ uninit => ~StepStarts]_vars
C10_Witness ==
    /\ uninit
    /\ pc = "done"
    /\ mp_calls = 1
    /\ wait_ms = MinMs
    /\ AllIdle

\* C11: a submission that fails with a length or data-type mismatch leaves
\* the Exit Signal as it was and the step goes on inside the Step Mutex (the
\* loop is not ended by it); in a later step the train gate decides as
\* always: it trains exactly when should_set_model, participate_in_update_task
\* and not fetch_error hold.
C11_MismatchKeepsLoop ==
    /\ [][(pc = "submit" /\ pc' # pc /\ submit_mismatch')
             => (pc' = "made_progress" /\ step_lock'
                 /\ exit_event' = exit_event)]_vars
    /\ [][(pc = "train_gate" /\ submit_mismatch /\ pc' \notin {pc, "raised"})
             => ((pc' = "train")
                   = (gate_ssm' /\ gate_part' /\ ~error_on_fetch_global_model))]_vars
C11_Witness ==
    /\ submit_mismatch
    /\ pc = "submit"
    /\ train_calls = 1
    /\ ~exit_event

\* C16: a step that ended without a failure called train_single_update once
\* if should_set_model() was true, participate_in_update_task() returned true
\* and fetch_error was false, and did not call it otherwise (Scenario C:
\* participate_in_update_task() false).
C16_TrainExactlyWhenGated ==
    pc = "backoff"
       => train_calls = (IF gate_ssm /\ gate_part /\ ~error_on_fetch_global_model
                            THEN 1 ELSE 0)
C16_Witness ==
    /\ pc = "backoff"
    /\ gate_ssm
    /\ ~gate_part
    /\ ~error_on_fetch_global_model
    /\ train_calls = 0

\* C12: a fetch that fails sets fetch_error and leaves the cached model as
\* it was; a fetch that returns None caches none and clears fetch_error; a
\* fetch that returns a model caches its deserialization and clears
\* fetch_error.
C12_FetchEffects ==
    [][(pc = "fetch" /\ pc' \notin {pc, "raised"})
          => CASE last_fetch' = "failed" ->
                     /\ error_on_fetch_global_model'
                     /\ global_model' = global_model
               [] last_fetch' = "absent" ->
                     /\ ~error_on_fetch_global_model'
                     /\ global_model' = None
               [] last_fetch' = "present" ->
                     /\ ~error_on_fetch_global_model'
                     /\ fetched_raw' \in RawModels
                     /\ global_model' = Deserialize(fetched_raw')
               [] OTHER -> FALSE]_vars
C12_Witness ==
    /\ pc = "train_gate"
    /\ last_fetch = "failed"
    /\ fetches = 1
    /\ error_on_fetch_global_model
    /\ global_model # None

\* C13: fetch_error, the cached global model and the backoff state change
\* only in steps of the loop taken while it holds the Step Mutex.
C13_MutationsUnderLock ==
    [][(\/ error_on_fetch_global_model' # error_on_fetch_global_model
        \/ global_model' # global_model
        \/ cur_attempt' # cur_attempt)
          => (pc \in InStep /\ step_lock)]_vars

\* C14: every stop() call that has begun eventually returns, and the Step
\* Mutex is not held by the loop while it computes and sits out its idle wait.
C14_StopReturns ==
    /\ \A s \in Stoppers : (stop_pc[s] # "idle") ~> (stop_pc[s] = "returned")
    /\ []((pc \in {"backoff", "wait"} /\ InLockSection = {}) => ~step_lock)
C14_Witness ==
    /\ klass = Modalic
    /\ pc = "wait"
    /\ \E s \in Stoppers : stop_mid[s] /\ stop_pc[s] = "returned"

\* C19: once the Exit Signal is set the loop eventually terminates; a wait
\* that ends with the signal set goes to the loop-top test, and the loop-top
\* test with the signal set ends the loop instead of starting a step.
C19_LoopTerminates ==
    /\ exit_event ~> (pc = "done")
    /\ [][(pc = "wait" /\ exit_event /\ pc' # pc) => pc' = "check"]_vars
    /\ [][(pc = "check" /\ exit_event /\ pc' # pc) => pc' = "done"]_vars
C19_Witness ==
    /\ pc = "wait"
    /\ exit_event
    /\ ~uninit
    /\ \E s \in Stoppers : stop_pc[s] # "idle" /\ ~stop_mid[s]

\* C15: stop() is idempotent: once a stop() call has returned, a step of
\* any other stop() call changes neither the participant state nor the
\* callbacks invoked on the user client, and calls made concurrently invoke
\* on_stop() no more often than one call does.
C15_StopIdempotent ==
    /\ [][((\E t \in Stoppers : stop_pc[t] = "returned") /\ stop_pc' # stop_pc)
             => UNCHANGED <<exit_event, error_on_fetch_global_model,
                            global_model, cur_attempt, on_stop_calls,
                            on_new_calls, train_calls>>]_vars
    /\ [](on_stop_calls <= 1)

\* what C17 says of the fetch gate: a step that reached its train gate has
\* made one fetch if new_global_model() or fetch_error held at its fetch
\* gate and none otherwise, so a step that follows a failed fetch fetches
\* again; a step whose fetch failed does not train.
FetchGateRule ==
    /\ pc = "train_gate" => fetches = (IF gate_ngm \/ gate_ferr THEN 1 ELSE 0)
    /\ (pc = "train_gate" /\ fetches = 0) => last_fetch # "failed"
    /\ (pc \in InStep \cup {"backoff"} /\ fetches = 1 /\ last_fetch = "failed")
          => train_calls = 0

\* a step that ended without failure, whose fetch returned after two or
\* more steps in a row whose fetch failed, with should_set_model() true
RecoveredStep ==
    /\ pc = "backoff"
    /\ fetches = 1
    /\ last_fetch # "failed"
    /\ fail_run >= 2
    /\ gate_ssm

\* C17 as stated: the fetch gate rule, and (Scenario B) the step in which
\* the fetch succeeds after two failing steps, with should_submit_model
\* true, trains.
C17_Original == FetchGateRule /\ (RecoveredStep => train_calls = 1)

\* C17 as amended: the fetch gate rule, and the step in which the fetch
\* succeeds after two failing steps trains when should_submit_model is true
\* and participate_in_update_task() returns true, and does not train when
\* participate_in_update_task() returns false.
C17_FetchRetry ==
    FetchGateRule /\ (RecoveredStep => train_calls = (IF gate_part THEN 1 ELSE 0))
C17_Witness ==
    /\ RecoveredStep
    /\ gate_part
    /\ train_calls = 1
    /\ cur_attempt = 2

\* C18: fetch_error starts false, and it goes from true to false only in
\* the step of the loop in which a fetch returns without failure.
C18_ErrorClearedByFetchOnly ==
    /\ ~error_on_fetch_global_model
    /\ [][(error_on_fetch_global_model /\ ~error_on_fetch_global_model')
             => (/\ pc = "fetch"
                 /\ pc' = "on_new"
                 /\ fetches' = fetches + 1
                 /\ last_fetch' \in {"absent", "present"})]_vars
C18_Witness ==
    /\ pc = "on_new"
    /\ ~error_on_fetch_global_model
    /\ fail_run >= 1

\* C20: whenever train_single_update is invoked its argument is the result
\* of the most recent fetch that returned without failure: the deserialized
\* model, or none if that fetch returned no model or no fetch has returned
\* yet; this includes a fetch earlier in the same step.
C20_TrainsOnLatestFetched ==
    train_calls > 0
       => train_arg = (IF fetched_raw = 0 THEN None ELSE Deserialize(fetched_raw))
C20_Witness ==
    /\ train_calls = 1
    /\ fetches = 1
    /\ last_fetch = "present"
    /\ fetched_raw = NumModels
    /\ train_arg = Deserialize(NumModels)
    /\ pc = "submit"
====
